---- MODULE Spec2Model ----
(***************************************************************************)
(* The vanilla autoencoder of autoencoders/sae/ae.py as a state machine.   *)
(*                                                                         *)
(* State: the four parameters of one Autoencoder instance, its             *)
(* configuration, and a record of the last call made on it (operation,     *)
(* arguments, returned value, raised exception, collaborator calls, and    *)
(* the two target Linear units handed to copy_weights).                    *)
(*                                                                         *)
(* Tensors: a 2-D tensor is [rows, cols, val] with val[i][j]; a 1-D tensor *)
(* is a sequence.  Floating point values are abstracted to integers; the   *)
(* random draws of xavier_uniform_, of external in-place updates and of    *)
(* input batches are small integer patterns indexed by a seed.             *)
(***************************************************************************)
EXTENDS Integers, Sequences, FiniteSets, TLC

\* Largest embedding/hidden dimension tried.
MaxDim == 2
\* Number of distinct random patterns (seeds) for weights, updates, batches.
MaxSeed == 2
\* Largest number of rows in an input batch.
MaxBatch == 1

VARIABLES
    pc,                  \* "new" | "ready" | "failed" (constructor raised)
    tied,                \* the constructor's tied argument
    embedding_dimension,
    hidden_dimension,
    activation,          \* "None" | "ReLU"
    corruption,          \* "None" | "Noise"
    encoder_weight,
    encoder_bias,
    _decoder_weight,     \* NoTensor when the weights are tied
    decoder_bias,
    op,                  \* name of the last call
    args,                \* its arguments
    ret,                 \* its returned tensor, NoTensor when none
    raised,              \* "None" or the exception it raised
    trace,               \* collaborator modules it invoked, in order
    encoder,             \* copy_weights' encoder target after the call
    decoder              \* copy_weights' decoder target after the call

params == <<encoder_weight, encoder_bias, _decoder_weight, decoder_bias>>
config == <<tied, embedding_dimension, hidden_dimension, activation, corruption>>
lastcall == <<op, args, ret, raised, trace, encoder, decoder>>
vars == <<pc, config, params, lastcall>>

----------------------------------------------------------------------------
(* Tensors *)

\* Python's None where a tensor is expected.
NoTensor == [none |-> TRUE]
\* A target Linear unit that was not passed.
NoLinear == [none |-> TRUE]

Seeds == 1..MaxSeed
Dims == -1..MaxDim
Activations == {"None", "ReLU"}
Corruptions == {"None", "Noise"}
Noises == {-1, 1}
\* What freshly allocated, uninitialised memory may hold.
Garbage == -1..1

\* The value a random draw with the given seed puts at position (i, j).
Pattern(seed, i, j) == ((seed + i + 2 * j) % 3) - 1

\* torch.Tensor(rows, cols): allocated, contents g are whatever was in memory.
Tensor2(rows, cols, g) ==
    [rows |-> rows, cols |-> cols,
     val |-> [i \in 1..rows |-> [j \in 1..cols |-> g]]]

\* torch.Tensor(len)
Tensor1(len, g) == [i \in 1..len |-> g]

\* A tensor of the shape of w with freshly drawn contents.
Fill2(w, seed) ==
    [rows |-> w.rows, cols |-> w.cols,
     val |-> [i \in 1..w.rows |-> [j \in 1..w.cols |-> Pattern(seed, i, j)]]]

Fill1(b, seed) == [i \in 1..Len(b) |-> Pattern(seed, i, 1)]

\* Tensor.t()
Transpose(w) ==
    [rows |-> w.cols, cols |-> w.rows,
     val |-> [j \in 1..w.cols |-> [i \in 1..w.rows |-> w.val[i][j]]]]

\* nn.init.xavier_uniform_(weight, gain): overwrites every element in place.
\* fan_in + fan_out = 0 divides by zero.
xavier_uniform_(weight, seed) == Fill2(weight, seed)

\* constant_ left out: the bias keeps what its memory held.
constant_skipped(bias, c) == bias

\* nn.init.constant_(bias, 0)
constant_(bias, c) == [i \in 1..Len(bias) |-> c]

----------------------------------------------------------------------------
(* Autoencoder *)

\* The property without the transposition.
decoder_weight_untransposed ==
    IF _decoder_weight /= NoTensor
    THEN _decoder_weight
    ELSE encoder_weight

\* The decoder_weight property.
decoder_weight ==
    IF _decoder_weight /= NoTensor
    THEN _decoder_weight
    ELSE Transpose(encoder_weight)

\* _initialise_weight_bias(weight, bias, gain)
_initialise_weight_bias(weight, bias, seed) ==
    [weight |-> IF weight /= NoTensor THEN xavier_uniform_(weight, seed) ELSE weight,
     bias |-> constant_(bias, 0)]

\* The allocation with the test on tied inverted.
AllocDecoderWeight_flipped(E, H, isTied, g) ==
    IF isTied THEN Tensor2(E, H, g) ELSE NoTensor

\* The allocation of self._decoder_weight.
AllocDecoderWeight(E, H, isTied, g) ==
    IF ~isTied THEN Tensor2(E, H, g) ELSE NoTensor

\* The constructor with an initialisation that skips empty tensors.
InitOutcomes_skip_empty(E, H) ==
    IF E < 0 \/ H < 0 THEN {"RuntimeError"} ELSE {"None"}

\* How the constructor's allocations and initialisations can end: "None" or
\* the exception raised.  torch.Tensor raises on a negative size.  With both
\* sizes 0, xavier_uniform_ divides by fan_in + fan_out = 0 (or, on a torch
\* that flattens empty tensors, rejects the 1-D tensor).  With one size 0 the
\* outcome depends on the torch installed: one that keeps zero-size axes
\* initialises the empty tensors, one that flattens them raises in
\* xavier_uniform_.
InitOutcomes(E, H) ==
    IF E < 0 \/ H < 0 THEN {"RuntimeError"}
    ELSE IF E + H = 0 THEN {"ZeroDivisionError", "ValueError"}
    ELSE IF E = 0 \/ H = 0 THEN {"None", "ValueError"}
    ELSE {"None"}

Init ==
    /\ pc = "new"
    /\ tied = FALSE
    /\ embedding_dimension = 0
    /\ hidden_dimension = 0
    /\ activation = "None"
    /\ corruption = "None"
    /\ encoder_weight = NoTensor
    /\ encoder_bias = <<>>
    /\ _decoder_weight = NoTensor
    /\ decoder_bias = <<>>
    /\ op = "none"
    /\ args = [none |-> TRUE]
    /\ ret = NoTensor
    /\ raised = "None"
    /\ trace = <<>>
    /\ encoder = NoLinear
    /\ decoder = NoLinear

\* Autoencoder(embedding_dimension, hidden_dimension, activation, corruption,
\* gain, tied).  s1 and s2 are the draws of the two xavier initialisations,
\* g the contents of freshly allocated memory.
Autoencoder_init ==
    /\ pc = "new"
    /\ op = "none"
    /\ \E E \in Dims, H \in Dims, act \in Activations, cor \in Corruptions,
          isTied \in BOOLEAN, s1 \in Seeds, s2 \in Seeds, g \in Garbage :
       \E outcome \in InitOutcomes(E, H) :
         /\ op' = "__init__"
         /\ args' = [embedding_dimension |-> E, hidden_dimension |-> H,
                     tied |-> isTied, s1 |-> s1, s2 |-> s2]
         /\ ret' = NoTensor
         /\ trace' = <<>>
         /\ encoder' = NoLinear
         /\ decoder' = NoLinear
         /\ raised' = outcome
         /\ IF outcome /= "None"
            THEN /\ pc' = "failed"
                 /\ UNCHANGED <<config, params>>
            ELSE LET enc == _initialise_weight_bias(
                                Tensor2(H, E, g), Tensor1(H, g), s1)
                     dec == _initialise_weight_bias(
                                AllocDecoderWeight(E, H, isTied, g), Tensor1(E, g), s2)
                 IN /\ pc' = "ready"
                    /\ tied' = isTied
                    /\ embedding_dimension' = E
                    /\ hidden_dimension' = H
                    /\ activation' = act
                    /\ corruption' = cor
                    /\ encoder_weight' = enc.weight
                    /\ encoder_bias' = enc.bias
                    /\ _decoder_weight' = dec.weight
                    /\ decoder_bias' = dec.bias

\* An external in-place update of one parameter (a training step).  An update
\* of decoder_weight of a tied autoencoder writes through the transposed view.
Parameters == {"encoder_weight", "encoder_bias", "decoder_weight", "decoder_bias"}

Mutate ==
    /\ pc = "ready"
    /\ op = "none"
    /\ \E p \in Parameters, s \in Seeds :
         /\ op' = "mutate"
         /\ args' = [param |-> p, seed |-> s]
         /\ ret' = NoTensor
         /\ raised' = "None"
         /\ trace' = <<>>
         /\ encoder' = NoLinear
         /\ decoder' = NoLinear
         /\ encoder_weight' =
               IF p = "encoder_weight" THEN Fill2(encoder_weight, s)
               ELSE IF p = "decoder_weight" /\ _decoder_weight = NoTensor
                    THEN Transpose(Fill2(decoder_weight, s))
                    ELSE encoder_weight
         /\ encoder_bias' =
               IF p = "encoder_bias" THEN Fill1(encoder_bias, s) ELSE encoder_bias
         /\ _decoder_weight' =
               IF p = "decoder_weight" /\ _decoder_weight /= NoTensor
               THEN Fill2(_decoder_weight, s)
               ELSE _decoder_weight
         /\ decoder_bias' =
               IF p = "decoder_bias" THEN Fill1(decoder_bias, s) ELSE decoder_bias
         /\ UNCHANGED <<pc, config>>

----------------------------------------------------------------------------
(* torch functions used by the forward pass and by copy_weights *)

Ok(value, calls) == [raised |-> "None", value |-> value, trace |-> calls]
Raise(exc) == [raised |-> exc, value |-> NoTensor, trace |-> <<>>]

\* sum over k in 1..n of x[k] * w[k]
RECURSIVE Dot(_, _, _)
Dot(x, w, n) == IF n = 0 THEN 0 ELSE Dot(x, w, n - 1) + x[n] * w[n]

\* A linear map that pads or truncates its input instead of raising.
F_linear_unchecked(input, weight, bias) ==
    Ok([rows |-> input.rows, cols |-> weight.rows,
        val |-> [n \in 1..input.rows |->
                   [h \in 1..weight.rows |->
                      Dot([k \in 1..weight.cols |->
                              IF k <= input.cols THEN input.val[n][k] ELSE 0],
                          weight.val[h], weight.cols) + bias[h]]]],
       <<>>)

\* F.linear(input, weight, bias) = input @ weight^T + bias; the trailing
\* dimension of input must be the number of columns of weight.
F_linear(input, weight, bias) ==
    IF input.cols /= weight.cols
    THEN Raise("RuntimeError")
    ELSE Ok([rows |-> input.rows, cols |-> weight.rows,
             val |-> [n \in 1..input.rows |->
                        [h \in 1..weight.rows |->
                           Dot(input.val[n], weight.val[h], weight.cols) + bias[h]]]],
            <<>>)

\* nn.ReLU(), elementwise
ReLU(t) ==
    [rows |-> t.rows, cols |-> t.cols,
     val |-> [i \in 1..t.rows |-> [j \in 1..t.cols |->
                IF t.val[i][j] > 0 THEN t.val[i][j] ELSE 0]]]

\* The corruption module: additive noise, the same shape as its input.
Noise(t, noise) ==
    [rows |-> t.rows, cols |-> t.cols,
     val |-> [i \in 1..t.rows |-> [j \in 1..t.cols |-> t.val[i][j] + noise]]]

\* Tensor.copy_(src) on 2-D tensors: src is broadcast to the shape of dst;
\* a src axis that is neither 1 nor the dst axis raises.
Broadcasts(s, d) == s = d \/ s = 1

copy2_(dst, src) ==
    IF Broadcasts(src.rows, dst.rows) /\ Broadcasts(src.cols, dst.cols)
    THEN [raised |-> "None",
          value |-> [rows |-> dst.rows, cols |-> dst.cols,
                     val |-> [i \in 1..dst.rows |-> [j \in 1..dst.cols |->
                                src.val[IF src.rows = 1 THEN 1 ELSE i]
                                       [IF src.cols = 1 THEN 1 ELSE j]]]]]
    ELSE [raised |-> "RuntimeError", value |-> dst]

\* Tensor.copy_(src) on 1-D tensors
copy1_(dst, src) ==
    IF Broadcasts(Len(src), Len(dst))
    THEN [raised |-> "None",
          value |-> [i \in 1..Len(dst) |-> src[IF Len(src) = 1 THEN 1 ELSE i]]]
    ELSE [raised |-> "RuntimeError", value |-> dst]

----------------------------------------------------------------------------
(* Autoencoder methods *)

\* encode with the corruption applied before the activation.
encode_corrupt_first(batch, noise) ==
    LET linear == F_linear(batch, encoder_weight, encoder_bias) IN
    IF linear.raised /= "None" THEN linear
    ELSE LET corrupted == IF corruption /= "None"
                          THEN Noise(linear.value, noise) ELSE linear.value
             activated == IF activation /= "None"
                          THEN ReLU(corrupted) ELSE corrupted
         IN Ok(activated,
               (IF corruption /= "None" THEN <<"corruption">> ELSE <<>>)
               \o (IF activation /= "None" THEN <<"activation">> ELSE <<>>))

\* encode(batch); noise is the draw of the corruption module.
encode(batch, noise) ==
    LET linear == F_linear(batch, encoder_weight, encoder_bias) IN
    IF linear.raised /= "None" THEN linear
    ELSE LET activated == IF activation /= "None"
                          THEN ReLU(linear.value) ELSE linear.value
             corrupted == IF corruption /= "None"
                          THEN Noise(activated, noise) ELSE activated
         IN Ok(corrupted,
               (IF activation /= "None" THEN <<"activation">> ELSE <<>>)
               \o (IF corruption /= "None" THEN <<"corruption">> ELSE <<>>))

\* decode(batch)
decode(batch) == F_linear(batch, decoder_weight, decoder_bias)

\* forward that returns the hidden representation.
forward_encode_only(batch, noise) == encode(batch, noise)

\* forward(batch)
forward(batch, noise) ==
    LET encoded == encode(batch, noise) IN
    IF encoded.raised /= "None" THEN encoded
    ELSE LET decoded == decode(encoded.value) IN
         [decoded EXCEPT !.trace = encoded.trace \o decoded.trace]

\* copy_weights writing the decoder target before the encoder target.
copy_weights_decoder_first(enc, dec) ==
    LET ew == copy2_(enc.weight, encoder_weight)
        eb == copy1_(enc.bias, encoder_bias)
        dw == copy2_(dec.weight, decoder_weight)
        db == copy1_(dec.bias, decoder_bias)
    IN IF dw.raised /= "None"
       THEN [raised |-> dw.raised, encoder |-> enc, decoder |-> dec]
       ELSE IF db.raised /= "None"
       THEN [raised |-> db.raised,
             encoder |-> enc, decoder |-> [dec EXCEPT !.weight = dw.value]]
       ELSE IF ew.raised /= "None"
       THEN [raised |-> ew.raised,
             encoder |-> enc, decoder |-> [weight |-> dw.value, bias |-> db.value]]
       ELSE IF eb.raised /= "None"
       THEN [raised |-> eb.raised,
             encoder |-> [enc EXCEPT !.weight = ew.value],
             decoder |-> [weight |-> dw.value, bias |-> db.value]]
       ELSE [raised |-> "None",
             encoder |-> [weight |-> ew.value, bias |-> eb.value],
             decoder |-> [weight |-> dw.value, bias |-> db.value]]

\* copy_weights writing the encoder's bias into the decoder target's bias.
copy_weights_bias_slip(enc, dec) ==
    LET ew == copy2_(enc.weight, encoder_weight)
        eb == copy1_(enc.bias, encoder_bias)
        dw == copy2_(dec.weight, decoder_weight)
        db == copy1_(dec.bias, encoder_bias)
    IN IF ew.raised /= "None"
       THEN [raised |-> ew.raised, encoder |-> enc, decoder |-> dec]
       ELSE IF eb.raised /= "None"
       THEN [raised |-> eb.raised,
             encoder |-> [enc EXCEPT !.weight = ew.value], decoder |-> dec]
       ELSE IF dw.raised /= "None"
       THEN [raised |-> dw.raised,
             encoder |-> [weight |-> ew.value, bias |-> eb.value], decoder |-> dec]
       ELSE IF db.raised /= "None"
       THEN [raised |-> db.raised,
             encoder |-> [weight |-> ew.value, bias |-> eb.value],
             decoder |-> [dec EXCEPT !.weight = dw.value]]
       ELSE [raised |-> "None",
             encoder |-> [weight |-> ew.value, bias |-> eb.value],
             decoder |-> [weight |-> dw.value, bias |-> db.value]]

\* copy_weights(encoder, decoder): four copy_ calls in sequence; the first
\* that raises ends the call.
copy_weights(enc, dec) ==
    LET ew == copy2_(enc.weight, encoder_weight)
        eb == copy1_(enc.bias, encoder_bias)
        dw == copy2_(dec.weight, decoder_weight)
        db == copy1_(dec.bias, decoder_bias)
    IN IF ew.raised /= "None"
       THEN [raised |-> ew.raised, encoder |-> enc, decoder |-> dec]
       ELSE IF eb.raised /= "None"
       THEN [raised |-> eb.raised,
             encoder |-> [enc EXCEPT !.weight = ew.value], decoder |-> dec]
       ELSE IF dw.raised /= "None"
       THEN [raised |-> dw.raised,
             encoder |-> [weight |-> ew.value, bias |-> eb.value], decoder |-> dec]
       ELSE IF db.raised /= "None"
       THEN [raised |-> db.raised,
             encoder |-> [weight |-> ew.value, bias |-> eb.value],
             decoder |-> [dec EXCEPT !.weight = dw.value]]
       ELSE [raised |-> "None",
             encoder |-> [weight |-> ew.value, bias |-> eb.value],
             decoder |-> [weight |-> dw.value, bias |-> db.value]]

\* Input batches: n rows, trailing dimension d, contents drawn with seed s.
Batch(n, d, s) == Fill2(Tensor2(n, d, 0), s)

\* A target unit with weight of shape (r, c) and bias of length b, holding
\* its own initial values.
Linear(r, c, b) ==
    [weight |-> Fill2(Tensor2(r, c, 0), MaxSeed),
     bias |-> Fill1(Tensor1(b, 0), MaxSeed)]

\* Axis lengths tried for a target slot whose matching length is d.
Near(d) == {d, d + 1}

Encode ==
    /\ pc = "ready"
    /\ op = "none"
    /\ \E n \in 1..MaxBatch, d \in 0..MaxDim, s \in Seeds,
          noise \in (IF corruption /= "None" THEN Noises ELSE {0}) :
         LET batch == Batch(n, d, s)
             out == encode(batch, noise)
         IN /\ op' = "encode"
            /\ args' = [batch |-> batch, noise |-> noise]
            /\ ret' = out.value
            /\ raised' = out.raised
            /\ trace' = out.trace
    /\ encoder' = NoLinear
    /\ decoder' = NoLinear
    /\ UNCHANGED <<pc, config, params>>

Decode ==
    /\ pc = "ready"
    /\ op = "none"
    /\ \E n \in 1..MaxBatch, d \in 0..MaxDim, s \in Seeds :
         LET batch == Batch(n, d, s)
             out == decode(batch)
         IN /\ op' = "decode"
            /\ args' = [batch |-> batch, noise |-> 0]
            /\ ret' = out.value
            /\ raised' = out.raised
            /\ trace' = out.trace
    /\ encoder' = NoLinear
    /\ decoder' = NoLinear
    /\ UNCHANGED <<pc, config, params>>

Forward ==
    /\ pc = "ready"
    /\ op = "none"
    /\ \E n \in 1..MaxBatch, d \in 0..MaxDim, s \in Seeds,
          noise \in (IF corruption /= "None" THEN Noises ELSE {0}) :
         LET batch == Batch(n, d, s)
             out == forward(batch, noise)
         IN /\ op' = "forward"
            /\ args' = [batch |-> batch, noise |-> noise]
            /\ ret' = out.value
            /\ raised' = out.raised
            /\ trace' = out.trace
    /\ encoder' = NoLinear
    /\ decoder' = NoLinear
    /\ UNCHANGED <<pc, config, params>>

\* copy_weights copying from the encoder target into self.
CopyWeights_reversed ==
    /\ pc = "ready"
    /\ op = "none"
    /\ \E er \in Near(hidden_dimension), ec \in Near(embedding_dimension),
          eb \in Near(hidden_dimension),
          dr \in Near(embedding_dimension), dc \in Near(hidden_dimension),
          db \in Near(embedding_dimension) :
         LET enc == Linear(er, ec, eb)
             dec == Linear(dr, dc, db)
             ew == copy2_(encoder_weight, enc.weight)
         IN /\ op' = "copy_weights"
            /\ args' = [encoder |-> enc, decoder |-> dec]
            /\ raised' = ew.raised
            /\ encoder' = enc
            /\ decoder' = dec
            /\ encoder_weight' = ew.value
    /\ ret' = NoTensor
    /\ trace' = <<>>
    /\ UNCHANGED <<pc, config, encoder_bias, _decoder_weight, decoder_bias>>

CopyWeights ==
    /\ pc = "ready"
    /\ op = "none"
    /\ \E er \in Near(hidden_dimension), ec \in Near(embedding_dimension),
          eb \in Near(hidden_dimension),
          dr \in Near(embedding_dimension), dc \in Near(hidden_dimension),
          db \in Near(embedding_dimension) :
         LET enc == Linear(er, ec, eb)
             dec == Linear(dr, dc, db)
             out == copy_weights(enc, dec)
         IN /\ op' = "copy_weights"
            /\ args' = [encoder |-> enc, decoder |-> dec]
            /\ raised' = out.raised
            /\ encoder' = out.encoder
            /\ decoder' = out.decoder
    /\ ret' = NoTensor
    /\ trace' = <<>>
    /\ UNCHANGED <<pc, config, params>>

\* The call returns and the caller lets go of the arguments and the result.
Return ==
    /\ op /= "none"
    /\ op' = "none"
    /\ args' = [none |-> TRUE]
    /\ ret' = NoTensor
    /\ raised' = "None"
    /\ trace' = <<>>
    /\ encoder' = NoLinear
    /\ decoder' = NoLinear
    /\ UNCHANGED <<pc, config, params>>

Next ==
    \/ Autoencoder_init
    \/ Mutate
    \/ Encode
    \/ Decode
    \/ Forward
    \/ CopyWeights
    \/ Return

Spec == Init /\ [][Next]_vars

----------------------------------------------------------------------------
(* Properties *)

Calls == {"encode", "decode", "forward", "copy_weights"}
Failed == raised /= "None"

\* batch @ weight^T + bias, element by element.
Affine(batch, weight, bias) ==
    [rows |-> batch.rows, cols |-> weight.rows,
     val |-> [n \in 1..batch.rows |-> [h \in 1..weight.rows |->
                Dot(batch.val[n], weight.val[h], weight.cols) + bias[h]]]]

\* The decoder weight a tied / an untied autoencoder is specified to use.
ResolvedDecoderWeight ==
    IF tied THEN Transpose(encoder_weight) ELSE _decoder_weight

\* C1: with tied = true, decoder_weight has shape (E x H) and is the transpose
\* of the current encoder_weight in every state, whatever updates and calls
\* came before, and a decode has used the current encoder_weight.
C1_TiedDecoderWeightIsTranspose ==
    (pc = "ready" /\ tied) =>
        /\ decoder_weight.rows = embedding_dimension
        /\ decoder_weight.cols = hidden_dimension
        /\ \A e \in 1..embedding_dimension, h \in 1..hidden_dimension :
              decoder_weight.val[e][h] = encoder_weight.val[h][e]
        /\ (op = "decode" /\ ~Failed) =>
              ret = Affine(args.batch, Transpose(encoder_weight), decoder_bias)

\* A tied autoencoder has decoded a batch after its encoder_weight was updated
\* in place (it holds neither of the patterns the constructor can draw).
C1_Witness ==
    /\ pc = "ready" /\ tied
    /\ embedding_dimension > 0 /\ hidden_dimension > 0
    /\ embedding_dimension /= hidden_dimension
    /\ op = "decode" /\ ~Failed
    /\ \A s \in Seeds : encoder_weight /= Fill2(encoder_weight, s)

\* C2: with tied = false, an update of encoder_weight leaves decoder_weight
\* as it was, and decoder_weight changes only in an update of decoder_weight.
C2_UntiedDecoderWeightIndependent ==
    [][(pc = "ready" /\ ~tied) =>
          /\ (op' = "mutate" /\ args'.param = "encoder_weight")
                => decoder_weight' = decoder_weight
          /\ (decoder_weight' /= decoder_weight)
                => (op' = "mutate" /\ args'.param = "decoder_weight")]_vars

\* An untied autoencoder whose encoder_weight was just updated and whose
\* decoder_weight is not its transpose.
C2_Witness ==
    /\ pc = "ready" /\ ~tied
    /\ embedding_dimension > 0 /\ hidden_dimension > 0
    /\ op = "mutate" /\ args.param = "encoder_weight"
    /\ decoder_weight /= Transpose(encoder_weight)

\* The target slots of the last copy_weights call, in the order they are written.
SlotFits(k) ==
    CASE k = 1 -> /\ Broadcasts(encoder_weight.rows, args.encoder.weight.rows)
                  /\ Broadcasts(encoder_weight.cols, args.encoder.weight.cols)
      [] k = 2 -> Broadcasts(Len(encoder_bias), Len(args.encoder.bias))
      [] k = 3 -> /\ Broadcasts(ResolvedDecoderWeight.rows, args.decoder.weight.rows)
                  /\ Broadcasts(ResolvedDecoderWeight.cols, args.decoder.weight.cols)
      [] k = 4 -> Broadcasts(Len(decoder_bias), Len(args.decoder.bias))

SlotMatches(k) ==
    CASE k = 1 -> /\ encoder_weight.rows = args.encoder.weight.rows
                  /\ encoder_weight.cols = args.encoder.weight.cols
      [] k = 2 -> Len(encoder_bias) = Len(args.encoder.bias)
      [] k = 3 -> /\ ResolvedDecoderWeight.rows = args.decoder.weight.rows
                  /\ ResolvedDecoderWeight.cols = args.decoder.weight.cols
      [] k = 4 -> Len(decoder_bias) = Len(args.decoder.bias)

SlotUnmodified(k) ==
    CASE k = 1 -> encoder.weight = args.encoder.weight
      [] k = 2 -> encoder.bias = args.encoder.bias
      [] k = 3 -> decoder.weight = args.decoder.weight
      [] k = 4 -> decoder.bias = args.decoder.bias

\* Slot k holds its parameter, repeated along every axis on which the
\* parameter has length 1 and the slot is longer.
Holds2(slot, src) ==
    \A i \in 1..slot.rows, j \in 1..slot.cols :
        slot.val[i][j] = src.val[IF src.rows = 1 THEN 1 ELSE i]
                                [IF src.cols = 1 THEN 1 ELSE j]

Holds1(slot, src) ==
    \A i \in 1..Len(slot) : slot[i] = src[IF Len(src) = 1 THEN 1 ELSE i]

SlotWritten(k) ==
    CASE k = 1 -> /\ encoder.weight.rows = args.encoder.weight.rows
                  /\ encoder.weight.cols = args.encoder.weight.cols
                  /\ Holds2(encoder.weight, encoder_weight)
      [] k = 2 -> /\ Len(encoder.bias) = Len(args.encoder.bias)
                  /\ Holds1(encoder.bias, encoder_bias)
      [] k = 3 -> /\ decoder.weight.rows = args.decoder.weight.rows
                  /\ decoder.weight.cols = args.decoder.weight.cols
                  /\ Holds2(decoder.weight, ResolvedDecoderWeight)
      [] k = 4 -> /\ Len(decoder.bias) = Len(args.decoder.bias)
                  /\ Holds1(decoder.bias, decoder_bias)

\* C3 as stated: a copy_weights of an autoencoder of positive dimensions
\* whose target has a slot of another shape than the parameter fails and has
\* modified none of the four slots.
C3_CopyWeightsAllOrNothing ==
    (/\ op = "copy_weights"
     /\ embedding_dimension > 0 /\ hidden_dimension > 0
     /\ \E k \in 1..4 : ~SlotMatches(k)) =>
        /\ Failed
        /\ \A k \in 1..4 : SlotUnmodified(k)

\* C3 as the code has it: copy_weights writes the slots in the order encoder
\* weight, encoder bias, decoder weight, decoder bias.  It fails exactly when
\* some slot cannot take its parameter (an axis differs and the parameter's
\* axis is not 1); then the slots before the first such slot hold their
\* parameters and that slot and the later ones are unmodified.
C3_CopyWeightsStopsAtFirstMisfit ==
    op = "copy_weights" =>
        /\ Failed <=> \E k \in 1..4 : ~SlotFits(k)
        /\ \A k \in 1..4 :
              IF \A m \in 1..k : SlotFits(m)
              THEN SlotWritten(k)
              ELSE SlotUnmodified(k)

\* A copy_weights that failed at the decoder weight after overwriting the
\* encoder target.
C3_Witness ==
    /\ op = "copy_weights" /\ Failed
    /\ embedding_dimension > 0 /\ hidden_dimension > 0
    /\ SlotFits(1) /\ SlotFits(2) /\ ~SlotFits(3)
    /\ ~SlotUnmodified(1) /\ ~SlotUnmodified(2)

\* C4 as stated: construction with a dimension <= 0 fails and leaves no
\* instance.
C4_NonPositiveDimensionRejected ==
    (op = "__init__"
        /\ (args.embedding_dimension <= 0 \/ args.hidden_dimension <= 0)) =>
        /\ Failed
        /\ pc = "failed"

\* C4 as the code has it: construction fails, with no instance and no
\* parameter allocated, when a dimension is negative or both are 0; nothing
\* in the constructor rejects a single dimension of 0.
C4_NegativeDimensionRejected ==
    (op = "__init__"
        /\ \/ args.embedding_dimension < 0
           \/ args.hidden_dimension < 0
           \/ (args.embedding_dimension = 0 /\ args.hidden_dimension = 0)) =>
        /\ Failed
        /\ pc = "failed"
        /\ encoder_weight = NoTensor
        /\ _decoder_weight = NoTensor

\* A construction with hidden_dimension = -1 has failed.
C4_Witness ==
    /\ op = "__init__"
    /\ args.embedding_dimension > 0
    /\ args.hidden_dimension < 0
    /\ Failed
    /\ pc = "failed"

\* C5: an encode whose batch has a trailing dimension other than
\* embedding_dimension, and a decode whose batch has one other than
\* hidden_dimension, raises, has called neither activation nor corruption,
\* and leaves the four parameters as they were.
C5_WrongTrailingDimensionRaises ==
    [][(\/ op' = "encode" /\ args'.batch.cols /= embedding_dimension
        \/ op' = "decode" /\ args'.batch.cols /= hidden_dimension) =>
          /\ raised' /= "None"
          /\ ret' = NoTensor
          /\ trace' = <<>>
          /\ params' = params
          /\ decoder_weight' = decoder_weight]_vars

\* An encode with activation and corruption configured has raised on a batch
\* of the wrong trailing dimension.
C5_Witness ==
    /\ op = "encode" /\ Failed
    /\ embedding_dimension > 0 /\ hidden_dimension > 0
    /\ args.batch.cols /= embedding_dimension
    /\ activation /= "None" /\ corruption /= "None"

\* C6: after a copy_weights onto targets whose four slots have the shapes of
\* the parameters, the call has succeeded and each slot equals its parameter:
\* encoder weight and bias, the decoder weight the tied flag selects (the
\* transpose of encoder_weight when tied), and the decoder bias.
C6_CopyWeightsCopiesAll ==
    (op = "copy_weights" /\ \A k \in 1..4 : SlotMatches(k)) =>
        /\ ~Failed
        /\ encoder.weight = encoder_weight
        /\ encoder.bias = encoder_bias
        /\ decoder.weight = ResolvedDecoderWeight
        /\ decoder.bias = decoder_bias

\* A tied autoencoder whose biases were updated has been copied onto
\* matching targets, which changed both of them.
C6_Witness ==
    /\ op = "copy_weights" /\ ~Failed /\ tied
    /\ \A k \in 1..4 : SlotMatches(k)
    /\ embedding_dimension > 0 /\ hidden_dimension > 0
    /\ embedding_dimension /= hidden_dimension
    /\ \E i \in 1..Len(encoder_bias) : encoder_bias[i] /= 0
    /\ \E i \in 1..Len(decoder_bias) : decoder_bias[i] /= 0
    /\ encoder /= args.encoder
    /\ decoder /= args.decoder

\* C7: encode, decode, forward and copy_weights leave the four parameters,
\* the decoder_weight read, the tied flag and the rest of the configuration
\* exactly as they were.
C7_CallsLeaveAutoencoderUnchanged ==
    [][op' \in Calls =>
          /\ params' = params
          /\ decoder_weight' = decoder_weight
          /\ config' = config
          /\ pc' = pc]_vars

\* A copy_weights that changed its targets has returned.
C7_Witness ==
    /\ op = "copy_weights" /\ ~Failed
    /\ embedding_dimension > 0 /\ hidden_dimension > 0
    /\ encoder /= args.encoder
    /\ decoder /= args.decoder

AllZero(bias) == \A i \in 1..Len(bias) : bias[i] = 0

\* C8: right after construction both biases are all 0, tied or not; the
\* decoder bias has length embedding_dimension of its own; a tied autoencoder
\* stores no decoder weight; and encoder_weight still holds the values of the
\* first initialisation (an untied decoder weight holds those of the second).
C8_FreshBiasesZero ==
    (op = "__init__" /\ pc = "ready") =>
        /\ Len(encoder_bias) = hidden_dimension /\ AllZero(encoder_bias)
        /\ Len(decoder_bias) = embedding_dimension /\ AllZero(decoder_bias)
        /\ tied = args.tied
        /\ tied <=> _decoder_weight = NoTensor
        /\ encoder_weight.rows = hidden_dimension
        /\ encoder_weight.cols = embedding_dimension
        /\ \A h \in 1..hidden_dimension, e \in 1..embedding_dimension :
              encoder_weight.val[h][e] = Pattern(args.s1, h, e)
        /\ ~tied =>
              /\ _decoder_weight.rows = embedding_dimension
              /\ _decoder_weight.cols = hidden_dimension
              /\ \A e \in 1..embedding_dimension, h \in 1..hidden_dimension :
                    _decoder_weight.val[e][h] = Pattern(args.s2, e, h)

\* A tied autoencoder was just constructed, the two initialisation steps
\* having drawn different values.
C8_Witness ==
    /\ op = "__init__" /\ pc = "ready" /\ tied
    /\ embedding_dimension > hidden_dimension /\ hidden_dimension > 0
    /\ args.s1 /= args.s2

\* What the encoder applies after its affine transform.
PostEncode(t, noise) ==
    LET activated == IF activation = "None" THEN t
                     ELSE [rows |-> t.rows, cols |-> t.cols,
                           val |-> [i \in 1..t.rows |-> [j \in 1..t.cols |->
                              IF t.val[i][j] < 0 THEN 0 ELSE t.val[i][j]]]]
    IN IF corruption = "None" THEN activated
       ELSE [rows |-> t.rows, cols |-> t.cols,
             val |-> [i \in 1..t.rows |-> [j \in 1..t.cols |->
                        activated.val[i][j] + noise]]]

\* C9: forward on a batch of shape (N, E) succeeds and returns a tensor of
\* shape (N, E): the batch encoded to (N, H) with encoder_weight and
\* encoder_bias, then decoded with the decoder weight the tied flag selects
\* and decoder_bias.
C9_ForwardIsDecodeOfEncode ==
    (op = "forward" /\ args.batch.cols = embedding_dimension) =>
        LET hidden == PostEncode(
                Affine(args.batch, encoder_weight, encoder_bias), args.noise)
        IN /\ ~Failed
           /\ hidden.rows = args.batch.rows
           /\ hidden.cols = hidden_dimension
           /\ ret.rows = args.batch.rows
           /\ ret.cols = args.batch.cols
           /\ ret = Affine(hidden, ResolvedDecoderWeight, decoder_bias)

\* A forward pass has returned whose reconstruction is not the input batch
\* and whose hidden representation has another width than the batch.
C9_Witness ==
    /\ op = "forward" /\ ~Failed
    /\ embedding_dimension > 0 /\ hidden_dimension > 0
    /\ embedding_dimension /= hidden_dimension
    /\ activation /= "None" /\ corruption /= "None"
    /\ ret /= args.batch

ExpectedTrace ==
    (IF activation = "None" THEN <<>> ELSE <<"activation">>)
    \o (IF corruption = "None" THEN <<>> ELSE <<"corruption">>)

\* C10: encode returns the affine transform batch @ encoder_weight^T +
\* encoder_bias, passed through the activation when one is configured and
\* then through the corruption when one is configured, each called once in
\* that order and skipped when absent; decode calls neither and returns the
\* bare batch @ decoder_weight^T + decoder_bias.
C10_EncodeOrderDecodeBare ==
    /\ (op = "encode" /\ ~Failed) =>
          /\ trace = ExpectedTrace
          /\ \A n \in 1..ret.rows, h \in 1..ret.cols :
                LET a == Dot(args.batch.val[n], encoder_weight.val[h],
                             embedding_dimension) + encoder_bias[h]
                    b == IF activation = "None" \/ a > 0 THEN a ELSE 0
                IN ret.val[n][h] = IF corruption = "None" THEN b ELSE b + args.noise
          /\ ret.rows = args.batch.rows /\ ret.cols = hidden_dimension
    /\ (op = "decode" /\ ~Failed) =>
          /\ trace = <<>>
          /\ ret = Affine(args.batch, decoder_weight, decoder_bias)

\* An encode with both modules configured has returned a value that the
\* other order of the two would not have produced.
C10_Witness ==
    /\ op = "encode" /\ ~Failed
    /\ activation /= "None" /\ corruption /= "None"
    /\ embedding_dimension > 0 /\ hidden_dimension > 0
    /\ ret /= ReLU(Noise(Affine(args.batch, encoder_weight, encoder_bias),
                         args.noise))

====
